---- MODULE Spec2Model ----
(***************************************************************************)
(* Model of saffron_dashboard.py, a Streamlit page.  The script runs top   *)
(* to bottom once when the page opens and once more after every widget     *)
(* change (date input, hour slider).  One run reads the CSV, fills in the  *)
(* missing columns, labels every row with classify_crop_health, filters    *)
(* the rows of the selected (date, hour) and renders the cards, the alert  *)
(* list, the soil table, the predictions and the chart.                    *)
(*                                                                         *)
(* Sensor values are floats in the program.  Every threshold is a whole    *)
(* number and no two thresholds are adjacent, so whole numbers reach every *)
(* outcome of every comparison; NaN is kept as a value of its own because  *)
(* every comparison with it is false.                                      *)
(***************************************************************************)
EXTENDS Integers, Sequences, FiniteSets

VARIABLES csv, df, selected_date, time_slider, page

vars == <<csv, df, selected_date, time_slider, page>>

-----------------------------------------------------------------------------
(* Floats: a finite number or NaN.                                         *)

Fin(x) == <<TRUE, x>>
NaN == <<FALSE, 0>>
\* Python's <, <=, > on floats: false as soon as one side is NaN.
Lt(a, b) == a[1] /\ b[1] /\ a[2] < b[2]
Le(a, b) == a[1] /\ b[1] /\ a[2] <= b[2]
Gt(a, b) == a[1] /\ b[1] /\ a[2] > b[2]

\* Python's chained comparison lo <= v <= hi.
Between(lo, v, hi) == Le(Fin(lo), v) /\ Le(v, Fin(hi))

-----------------------------------------------------------------------------
(* IDEAL, the threshold table.                                             *)

ph_min == 6
ph_max == 8
temperature_min == 15
temperature_max == 25
humidity_min == 40
humidity_max == 60
n_min == 20
n_max == 60
p_min == 60
p_max == 80
k_min == 40
k_max == 60
\* the soil-temperature range is written out in the soil table's st branch
st_low == 18
st_high == 22

-----------------------------------------------------------------------------
(* The CSV files the model reads.                                          *)

\* Departures of a file from the one-row nominal file: a field off its nominal
\* value, a Dormancy stage, a dropped column or a second row each count one.
MaxOff == 2

Dates == {1, 2}
\* the slider runs from 0 to 23; the model keeps its two ends
Hours == {0, 23}
Keys == Dates \X Hours

NumFields == {"temperature", "humidity", "ph", "sh", "st", "n", "p", "k"}
Columns == {"date", "hour", "stage", "sc"} \cup NumFields

\* A reading with every parameter inside its range, during Flowering.
Nominal ==
    [date |-> 1, hour |-> 0, stage |-> "Flowering", sc |-> Fin(1),
     temperature |-> Fin(20), humidity |-> Fin(50), ph |-> Fin(7),
     sh |-> Fin(50), st |-> Fin(20), n |-> Fin(40), p |-> Fin(70), k |-> Fin(50)]

\* The other values a field takes: below, on and above the bounds the code
\* compares it with, a second value inside, and NaN.
Alt(f) ==
    CASE f = "ph"          -> {Fin(2), Fin(6), Fin(8), Fin(9), NaN}
      [] f = "temperature" -> {Fin(10), Fin(15), Fin(24), Fin(30)}
      [] f = "humidity"    -> {Fin(30), Fin(41), Fin(60), Fin(70)}
      [] f = "n"           -> {Fin(10), Fin(20), Fin(21), Fin(60), Fin(70), NaN}
      [] f = "p"           -> {Fin(50), Fin(60), Fin(79), Fin(80), Fin(90)}
      [] f = "k"           -> {Fin(30), Fin(40), Fin(41), Fin(60), Fin(70)}
      [] f = "st"          -> {Fin(10), Fin(18), Fin(22), Fin(30)}
      [] f = "sh"          -> {Fin(10), Fin(40), Fin(60), Fin(70)}

\* The readings that differ from r in exactly the fields of S.
RECURSIVE Perturbed(_, _)
Perturbed(r, S) ==
    IF S = {} THEN {r}
    ELSE LET f == CHOOSE x \in S : TRUE
         IN  UNION { Perturbed([r EXCEPT ![f] = v], S \ {f}) : v \in Alt(f) }

\* Readings with at most `budget` departures from the nominal one, none in a
\* field of `skip`.
ReadingsWith(budget, skip) ==
    UNION { Perturbed(Nominal, S) \cup
            (IF Cardinality(S) < budget
             THEN Perturbed([Nominal EXCEPT !.stage = "Dormancy"], S) ELSE {})
            : S \in {X \in SUBSET (NumFields \ skip) : Cardinality(X) <= budget} }

\* A second row of the file: the nominal reading with ph = 9.
Distractor == [Nominal EXCEPT !.ph = Fin(9)]

At(r, key) == [r EXCEPT !.date = key[1], !.hour = key[2]]

KeyLe(a, b) == a[1] < b[1] \/ (a[1] = b[1] /\ a[2] <= b[2])

\* Timestamps of one or two rows in file order; the file starts on day 1.
FirstKeys == {k \in Keys : k[1] = 1}
KeyPairs == {x \in FirstKeys \X Keys : KeyLe(x[1], x[2])}

\* The shape of a file: a reading alone, or with the distractor after or
\* before it (at the same timestamp or another), rows in timestamp order.
Shapes ==
    { <<"alone", a, a>> : a \in FirstKeys }
    \cup { <<o, ab[1], ab[2]>> : o \in {"after", "before"}, ab \in KeyPairs }

Cost(shape) == IF shape[1] = "alone" THEN 0 ELSE 1

Rows(r, shape) ==
    IF shape[1] = "alone" THEN <<At(r, shape[2])>>
    ELSE IF shape[1] = "after" THEN <<At(r, shape[2]), At(Distractor, shape[3])>>
    ELSE <<At(Distractor, shape[2]), At(r, shape[3])>>

\* the columns line 51 fills in when the file lacks them
Defaulted == {"sc", "sh", "st", "n", "p", "k", "ph"}

Restrict(r, cols) == [c \in cols |-> r[c]]

MkFile(absent, rows) ==
    [columns |-> Columns \ absent,
     rows |-> [i \in 1..Len(rows) |-> Restrict(rows[i], Columns \ absent)]]

Absents == {X \in SUBSET Defaulted : Cardinality(X) <= MaxOff}

\* The file is one of the bounded files: some columns dropped, a shape, and a
\* reading within what is left of the budget.
IsFile(file) ==
    \E A \in Absents, shape \in Shapes :
        \E r \in ReadingsWith(MaxOff - Cardinality(A) - Cost(shape), A) :
            file = MkFile(A, Rows(r, shape))

-----------------------------------------------------------------------------
(* Data loading and the health label.                                      *)

\* for col in [...]: if col not in df.columns: df[col] = 0
FillMissing(columns, row) ==
    [c \in Columns |-> IF c \in columns THEN row[c] ELSE Fin(0)]

\* Variant: the humidity check pasted from the temperature check with its bounds.
classify_humidity_pasted(row) ==
    IF ~Between(ph_min, row.ph, ph_max) THEN "At Risk"
    ELSE IF ~Between(temperature_min, row.temperature, temperature_max) THEN "Needs Attention"
    ELSE IF ~Between(temperature_min, row.humidity, temperature_max) THEN "Needs Attention"
    ELSE IF Lt(row.n, Fin(n_min)) THEN "Needs Attention"
    ELSE IF Lt(row.p, Fin(p_min)) THEN "Needs Attention"
    ELSE IF Lt(row.k, Fin(k_min)) THEN "Needs Attention"
    ELSE "Healthy"

\* Variant: the temperature check ahead of the pH check.
classify_temperature_first(row) ==
    IF ~Between(temperature_min, row.temperature, temperature_max) THEN "Needs Attention"
    ELSE IF ~Between(ph_min, row.ph, ph_max) THEN "At Risk"
    ELSE IF ~Between(humidity_min, row.humidity, humidity_max) THEN "Needs Attention"
    ELSE IF Lt(row.n, Fin(n_min)) THEN "Needs Attention"
    ELSE IF Lt(row.p, Fin(p_min)) THEN "Needs Attention"
    ELSE IF Lt(row.k, Fin(k_min)) THEN "Needs Attention"
    ELSE "Healthy"

\* Variant: nitrogen above n_max escalates the label as well.
classify_high_n(row) ==
    IF ~Between(ph_min, row.ph, ph_max) THEN "At Risk"
    ELSE IF ~Between(temperature_min, row.temperature, temperature_max) THEN "Needs Attention"
    ELSE IF ~Between(humidity_min, row.humidity, humidity_max) THEN "Needs Attention"
    ELSE IF Lt(row.n, Fin(n_min)) \/ Gt(row.n, Fin(n_max)) THEN "Needs Attention"
    ELSE IF Lt(row.p, Fin(p_min)) THEN "Needs Attention"
    ELSE IF Lt(row.k, Fin(k_min)) THEN "Needs Attention"
    ELSE "Healthy"

classify_crop_health(row) ==
    IF ~Between(ph_min, row.ph, ph_max) THEN "At Risk"
    ELSE IF ~Between(temperature_min, row.temperature, temperature_max) THEN "Needs Attention"
    ELSE IF ~Between(humidity_min, row.humidity, humidity_max) THEN "Needs Attention"
    ELSE IF Lt(row.n, Fin(n_min)) THEN "Needs Attention"
    ELSE IF Lt(row.p, Fin(p_min)) THEN "Needs Attention"
    ELSE IF Lt(row.k, Fin(k_min)) THEN "Needs Attention"
    ELSE "Healthy"

\* A row of df: the columns of the file, the filled-in ones, and crop_health.
WithHealth(row) ==
    [c \in Columns \cup {"crop_health"} |->
        IF c = "crop_health" THEN classify_crop_health(row) ELSE row[c]]

LoadData(file) ==
    [i \in 1..Len(file.rows) |-> WithHealth(FillMissing(file.columns, file.rows[i]))]

-----------------------------------------------------------------------------
(* The page: what one run of the script renders.                           *)

\* df[(df['date_only'] == selected_date) & (df['hour'] == time_slider)]
Filter(frame, date, hour) ==
    SelectSeq(frame, LAMBDA r : r.date = date /\ r.hour = hour)

\* series.values[0]
First(rows) == rows[1]

\* An optional component of the page: <<>> when it is not rendered.
None == <<>>
Some(x) == <<x>>

\* Sidebar: the stage badge, only when a row matches.
growth_stage(selected_row) ==
    IF selected_row # <<>> THEN Some(First(selected_row).stage) ELSE None

\* Mini cards (temperature, humidity, pH), or the warning.
mini_cards(filtered_df) ==
    IF filtered_df # <<>>
    THEN Some([temperature |-> First(filtered_df).temperature,
               humidity |-> First(filtered_df).humidity,
               ph |-> First(filtered_df).ph])
    ELSE None

warning(filtered_df) == filtered_df = <<>>

health_color(crop_health) ==
    IF crop_health = "Healthy" THEN "#4CAF50"
    ELSE IF crop_health = "Needs Attention" THEN "#ff9800"
    ELSE "#e53935"

\* Variant: the card reads the last matching row, not the first.
health_card_last(filtered_df) ==
    IF filtered_df # <<>>
    THEN Some([crop_health |-> filtered_df[Len(filtered_df)].crop_health,
               color |-> health_color(filtered_df[Len(filtered_df)].crop_health)])
    ELSE None

\* Crop Health Status card.
health_card(filtered_df) ==
    IF filtered_df # <<>>
    THEN Some([crop_health |-> First(filtered_df).crop_health,
               color |-> health_color(First(filtered_df).crop_health)])
    ELSE None

story_txt(crop_health) ==
    IF crop_health = "Healthy" THEN "thriving in optimal conditions"
    ELSE IF crop_health = "Needs Attention" THEN "under stress"
    ELSE IF crop_health = "At Risk" THEN "facing critical conditions"
    ELSE "Unable to determine plant story."

\* Plant Story card.
story_card(filtered_df) ==
    IF filtered_df # <<>>
    THEN Some(story_txt(First(filtered_df).crop_health))
    ELSE None

When(cond, item) == IF cond THEN <<item>> ELSE <<>>

\* Variant: the potassium alert fires on k <= k_min.
alerts_k_inclusive(row) ==
    When(~Between(humidity_min, row.humidity, humidity_max), "Humidity out of range!")
    \o When(~Between(temperature_min, row.temperature, temperature_max), "Temperature out of range!")
    \o When(~Between(ph_min, row.ph, ph_max), "pH out of range!")
    \o When(Lt(row.n, Fin(n_min)), "Nitrogen is low.")
    \o When(Lt(row.p, Fin(p_min)), "Phosphorus is low.")
    \o When(Le(row.k, Fin(k_min)), "Potassium is low.")

\* The alerts list of the Alerts & Recommendations block, in append order.
alerts(row) ==
    When(~Between(humidity_min, row.humidity, humidity_max), "Humidity out of range!")
    \o When(~Between(temperature_min, row.temperature, temperature_max), "Temperature out of range!")
    \o When(~Between(ph_min, row.ph, ph_max), "pH out of range!")
    \o When(Lt(row.n, Fin(n_min)), "Nitrogen is low.")
    \o When(Lt(row.p, Fin(p_min)), "Phosphorus is low.")
    \o When(Lt(row.k, Fin(k_min)), "Potassium is low.")

\* The alert card: rendered only when a row matches and the list is not empty.
alerts_card(filtered_df) ==
    IF filtered_df # <<>> /\ alerts(First(filtered_df)) # <<>>
    THEN Some(alerts(First(filtered_df)))
    ELSE None

soil_params == <<"n", "p", "k", "st", "sh", "ph">>

Entry(rec, stat, reason) ==
    <<[recommendation |-> rec, status |-> stat, reason |-> reason]>>

branch_n(value) ==
    IF Lt(value, Fin(n_min)) THEN Entry("Add N to >=20 kg/ha", "Bad", "Low nitrogen")
    ELSE IF Gt(value, Fin(n_max)) THEN Entry("Reduce N", "Check", "High nitrogen")
    ELSE Entry("Optimal", "Good", "")

branch_p(value) ==
    IF Lt(value, Fin(p_min)) THEN Entry("Add P to >=60 kg/ha", "Bad", "Low phosphorus")
    ELSE IF Gt(value, Fin(p_max)) THEN Entry("Reduce P", "Check", "High phosphorus")
    ELSE Entry("Optimal", "Good", "")

\* Variant: the low-potassium test written value <= k_min.
branch_k_inclusive(value) ==
    IF Le(value, Fin(k_min)) THEN Entry("Add K to >=40 kg/ha", "Bad", "Low potassium")
    ELSE IF Gt(value, Fin(k_max)) THEN Entry("Reduce K", "Check", "High potassium")
    ELSE Entry("Optimal", "Good", "")

branch_k(value) ==
    IF Lt(value, Fin(k_min)) THEN Entry("Add K to >=40 kg/ha", "Bad", "Low potassium")
    ELSE IF Gt(value, Fin(k_max)) THEN Entry("Reduce K", "Check", "High potassium")
    ELSE Entry("Optimal", "Good", "")

branch_ph(value) ==
    IF ~Between(ph_min, value, ph_max) THEN Entry("Adjust to 6.0-8.0", "Bad", "pH out of range")
    ELSE Entry("Optimal", "Good", "")

branch_st(value) ==
    IF ~Between(st_low, value, st_high) THEN Entry("Adjust soil temp", "Check", "Soil temp out of range")
    ELSE Entry("Optimal", "Good", "")

branch_sh(value) ==
    IF ~Between(humidity_min, value, humidity_max)
    THEN Entry("Adjust soil humidity", "Check", "Soil humidity out of range")
    ELSE Entry("Optimal", "Good", "")

\* Variant: the soil-humidity branch tests a name that is not in soil_params.
soil_branch_no_sh(param, value) ==
    IF param = "n" THEN branch_n(value)
    ELSE IF param = "p" THEN branch_p(value)
    ELSE IF param = "k" THEN branch_k(value)
    ELSE IF param = "ph" THEN branch_ph(value)
    ELSE IF param = "st" THEN branch_st(value)
    ELSE IF param = "soil_humidity" THEN branch_sh(value)
    ELSE <<>>

\* One pass of the loop body: what it appends for (param, value).  A param
\* that matches no branch appends nothing.
soil_branch(param, value) ==
    IF param = "n" THEN branch_n(value)
    ELSE IF param = "p" THEN branch_p(value)
    ELSE IF param = "k" THEN branch_k(value)
    ELSE IF param = "ph" THEN branch_ph(value)
    ELSE IF param = "st" THEN branch_st(value)
    ELSE IF param = "sh" THEN branch_sh(value)
    ELSE <<>>

\* for param, value in zip(soil_params, current_values): the three lists
\* after the first i passes.
RECURSIVE soil_loop(_, _, _)
soil_loop(params, values, i) ==
    IF i = 0 THEN <<>>
    ELSE soil_loop(params, values, i - 1) \o soil_branch(params[i], values[i])

\* soil_df: the five columns of the table.
soil_table(row) ==
    LET current_values == [i \in 1..Len(soil_params) |-> row[soil_params[i]]]
        appended == soil_loop(soil_params, current_values, Len(soil_params))
    IN  [Parameter |-> soil_params,
         CurrentValue |-> current_values,
         Recommendation |-> [i \in 1..Len(appended) |-> appended[i].recommendation],
         Status |-> [i \in 1..Len(appended) |-> appended[i].status],
         Reason |-> [i \in 1..Len(appended) |-> appended[i].reason]]

soil_card(filtered_df) ==
    IF filtered_df # <<>> THEN Some(soil_table(First(filtered_df))) ELSE None

\* Fertilization and irrigation: the models are opaque, so what they answer
\* (need or no need) is an input of the run.  predict_calls counts the
\* predict calls the block makes.  (A model that rejects its input raises in
\* this block, after the soil table is on the page; that is not modelled.)
predictions(filtered_df, fert_need, irrig_need) ==
    IF filtered_df # <<>>
    THEN Some([fert_type_str |-> IF fert_need = 1 THEN "Type, Amount"
                                 ELSE "No fertilization needed.",
               irrig_str |-> IF irrig_need = 1 THEN "Amount" ELSE "No irrigation needed.",
               predict_calls |-> 2 + (IF fert_need = 1 THEN 2 ELSE 0)
                                   + (IF irrig_need = 1 THEN 1 ELSE 0)])
    ELSE None

\* Temperature chart: the temperatures and hours of every row of the day
\* (the smoothing is a library call on temp_data and is not modelled).
chart(frame, filtered_df, date) ==
    IF filtered_df # <<>>
    THEN LET day == SelectSeq(frame, LAMBDA r : r.date = date)
         IN  Some([hour_data |-> [i \in 1..Len(day) |-> day[i].hour],
                   temp_data |-> [i \in 1..Len(day) |-> day[i].temperature]])
    ELSE None

\* One run of the script from the sidebar down, on the loaded frame.
Render(frame, date, hour, fert_need, irrig_need) ==
    LET filtered_df == Filter(frame, date, hour)
    IN  [stage |-> growth_stage(filtered_df),
         mini |-> mini_cards(filtered_df),
         warning |-> warning(filtered_df),
         health |-> health_card(filtered_df),
         story |-> story_card(filtered_df),
         alerts |-> alerts_card(filtered_df),
         soil |-> soil_card(filtered_df),
         predictions |-> predictions(filtered_df, fert_need, irrig_need),
         chart |-> chart(frame, filtered_df, date)]

-----------------------------------------------------------------------------
(* The state machine: the first run, then one run per widget change.       *)

RECURSIVE MinDate(_, _)
MinDate(frame, i) ==
    IF i = 1 THEN frame[1].date
    ELSE LET m == MinDate(frame, i - 1)
         IN  IF frame[i].date < m THEN frame[i].date ELSE m

\* st.date_input's default: df['date_only'].min()
DefaultDate(frame) == MinDate(frame, Len(frame))

\* st.slider(..., 0, 23, step=1): the default is the minimum
DefaultHour == 0

Run(date, hour, fert_need, irrig_need) ==
    /\ df' = LoadData(csv)
    /\ selected_date' = date
    /\ time_slider' = hour
    /\ page' = Render(df', date, hour, fert_need, irrig_need)
    /\ UNCHANGED csv

Init ==
    /\ IsFile(csv)
    /\ df = LoadData(csv)
    /\ selected_date = DefaultDate(df)
    /\ time_slider = DefaultHour
    /\ \E fert_need \in {0, 1}, irrig_need \in {0, 1} :
          page = Render(df, selected_date, time_slider, fert_need, irrig_need)

\* The operator picks another date.
SelectDate ==
    \E date \in Dates, fert_need \in {0, 1}, irrig_need \in {0, 1} :
        /\ date # selected_date
        /\ Run(date, time_slider, fert_need, irrig_need)

\* The operator moves the hour slider.
SelectHour ==
    \E hour \in Hours, fert_need \in {0, 1}, irrig_need \in {0, 1} :
        /\ hour # time_slider
        /\ Run(selected_date, hour, fert_need, irrig_need)

Next == SelectDate \/ SelectHour

Spec == Init /\ [][Next]_vars

-----------------------------------------------------------------------------
(* Properties.                                                             *)

Labels == {"Healthy", "Needs Attention", "At Risk"}

\* The rows of df at the selected date and hour, by position.
MatchingIndexes ==
    {i \in 1..Len(df) : df[i].date = selected_date /\ df[i].hour = time_slider}

FirstMatch ==
    df[CHOOSE i \in MatchingIndexes : \A j \in MatchingIndexes : i <= j]

Displayed == MatchingIndexes # {}

StrictlyInside(lo, v, hi) == Lt(Fin(lo), v) /\ Lt(v, Fin(hi))

\* Position of a parameter in the rendered soil table.
RowOf(table, param) ==
    CHOOSE i \in 1..Len(table.Parameter) : table.Parameter[i] = param

\* C1: every reading whose stage is Dormancy is labelled Healthy and raises
\* no alert, whatever its sensor values.
C1_DormancyAlwaysHealthy ==
    \A i \in 1..Len(df) :
        df[i].stage = "Dormancy" =>
            df[i].crop_health = "Healthy" /\ alerts(df[i]) = <<>>

AllStrictlyInside(r) ==
    /\ StrictlyInside(ph_min, r.ph, ph_max)
    /\ StrictlyInside(temperature_min, r.temperature, temperature_max)
    /\ StrictlyInside(humidity_min, r.humidity, humidity_max)
    /\ StrictlyInside(n_min, r.n, n_max)
    /\ StrictlyInside(p_min, r.p, p_max)
    /\ StrictlyInside(k_min, r.k, k_max)
    /\ StrictlyInside(st_low, r.st, st_high)
    /\ StrictlyInside(humidity_min, r.sh, humidity_max)

\* C2: a reading outside Dormancy whose eight parameters are all strictly
\* inside their ideal ranges is labelled Healthy.
C2_InsideIdealHealthy ==
    \A i \in 1..Len(df) :
        (df[i].stage # "Dormancy" /\ AllStrictlyInside(df[i])) =>
            df[i].crop_health = "Healthy"

\* A reading off the nominal one, all inside, is loaded and labelled Healthy.
C2_Witness ==
    \E i \in 1..Len(df) :
        /\ df[i].stage # "Dormancy" /\ AllStrictlyInside(df[i])
        /\ df[i].n # Nominal.n /\ df[i].temperature # Nominal.temperature
        /\ df[i].crop_health = "Healthy"

FurtherOut(ph, ph2) ==
    \/ Lt(ph, Fin(ph_min)) /\ Lt(ph2, ph)
    \/ Gt(ph, Fin(ph_max)) /\ Gt(ph2, ph)

PhProbes == {Fin(x) : x \in -2..16}

\* C3: outside Dormancy, a reading with ph out of range is At Risk whatever
\* its other fields, and stays At Risk when ph alone moves further out on the
\* same side.
C3_PhMonotone ==
    \A i \in 1..Len(df) :
        (df[i].stage # "Dormancy" /\ ~Between(ph_min, df[i].ph, ph_max)) =>
            /\ df[i].crop_health = "At Risk"
            /\ \A ph2 \in PhProbes :
                  FurtherOut(df[i].ph, ph2) =>
                      classify_crop_health([df[i] EXCEPT !.ph = ph2]) = "At Risk"

\* A reading with ph above range and the temperature out of range as well.
C3_Witness ==
    \E i \in 1..Len(df) :
        /\ df[i].stage # "Dormancy"
        /\ Gt(df[i].ph, Fin(ph_max))
        /\ ~Between(temperature_min, df[i].temperature, temperature_max)
        /\ df[i].crop_health = "At Risk"

\* C4: when the health card shows Healthy, the alert list of the run is
\* empty and no alert card is rendered.
C4_HealthyNoAlerts ==
    (page.health # None /\ page.health[1].crop_health = "Healthy") =>
        page.alerts = None

\* A Healthy card for a reading with potassium on its lower bound.
C4_Witness ==
    /\ page.health # None /\ page.health[1].crop_health = "Healthy"
    /\ Displayed /\ FirstMatch.k = Fin(k_min)
    /\ page.alerts = None

OwnRecommendations(param) ==
    CASE param = "n"  -> {"Add N to >=20 kg/ha", "Reduce N", "Optimal"}
      [] param = "p"  -> {"Add P to >=60 kg/ha", "Reduce P", "Optimal"}
      [] param = "k"  -> {"Add K to >=40 kg/ha", "Reduce K", "Optimal"}
      [] param = "st" -> {"Adjust soil temp", "Optimal"}
      [] param = "sh" -> {"Adjust soil humidity", "Optimal"}
      [] param = "ph" -> {"Adjust to 6.0-8.0", "Optimal"}

OwnReasons(param) ==
    CASE param = "n"  -> {"Low nitrogen", "High nitrogen", ""}
      [] param = "p"  -> {"Low phosphorus", "High phosphorus", ""}
      [] param = "k"  -> {"Low potassium", "High potassium", ""}
      [] param = "st" -> {"Soil temp out of range", ""}
      [] param = "sh" -> {"Soil humidity out of range", ""}
      [] param = "ph" -> {"pH out of range", ""}

\* C5: a rendered soil table has the rows n, p, k, st, sh, ph in that order,
\* and its value, recommendation, status and reason lists have one entry per
\* row, entry i being that of parameter i.
C5_SoilTableShape ==
    page.soil # None =>
        LET t == page.soil[1]
        IN  /\ t.Parameter = <<"n", "p", "k", "st", "sh", "ph">>
            /\ Len(t.CurrentValue) = 6
            /\ Len(t.Recommendation) = 6
            /\ Len(t.Status) = 6
            /\ Len(t.Reason) = 6
            /\ \A i \in 1..6 :
                  /\ t.CurrentValue[i] = FirstMatch[t.Parameter[i]]
                  /\ t.Recommendation[i] \in OwnRecommendations(t.Parameter[i])
                  /\ t.Status[i] \in {"Good", "Check", "Bad"}
                  /\ t.Reason[i] \in OwnReasons(t.Parameter[i])

\* A table with a soil-humidity row and a pH row that are both off.
C5_Witness ==
    /\ page.soil # None
    /\ Len(page.soil[1].Status) = 6
    /\ page.soil[1].Reason[5] = "Soil humidity out of range"
    /\ page.soil[1].Reason[6] = "pH out of range"

NutrientRow(t, param, value, lo, hi, low_reason, high_reason) ==
    LET i == RowOf(t, param)
    IN  /\ Lt(value, Fin(lo)) => t.Status[i] = "Bad" /\ t.Reason[i] = low_reason
        /\ Gt(value, Fin(hi)) => t.Status[i] = "Check" /\ t.Reason[i] = high_reason
        /\ Between(lo, value, hi) =>
              t.Status[i] = "Good" /\ t.Recommendation[i] = "Optimal"

\* C6: in a rendered soil table the rows of n, p and k are Bad with a low
\* reason below the minimum, Check with a high reason above the maximum and
\* Good with Optimal from the minimum to the maximum included; in every row
\* the reason is empty exactly when the status is Good.
C6_NutrientRows ==
    page.soil # None =>
        LET t == page.soil[1]
        IN  /\ NutrientRow(t, "n", FirstMatch.n, n_min, n_max, "Low nitrogen", "High nitrogen")
            /\ NutrientRow(t, "p", FirstMatch.p, p_min, p_max, "Low phosphorus", "High phosphorus")
            /\ NutrientRow(t, "k", FirstMatch.k, k_min, k_max, "Low potassium", "High potassium")
            /\ \A i \in 1..Len(t.Status) :
                  (t.Reason[i] = "") <=> (t.Status[i] = "Good")

\* A table for potassium on its minimum and nitrogen above its maximum.
C6_Witness ==
    /\ page.soil # None
    /\ Displayed
    /\ FirstMatch.k = Fin(k_min)
    /\ Gt(FirstMatch.n, Fin(n_max))
    /\ page.soil[1].Status[3] = "Good"
    /\ page.soil[1].Status[1] = "Check"

\* C7: the soil-humidity row is Good during Dormancy whatever the value;
\* outside Dormancy it is NeedsWater below the minimum, Check above the
\* maximum and Good in between.
C7_SoilHumidityRow ==
    page.soil # None =>
        LET t == page.soil[1]
            i == RowOf(t, "sh")
            v == FirstMatch.sh
        IN  IF FirstMatch.stage = "Dormancy"
            THEN t.Status[i] = "Good"
            ELSE /\ Lt(v, Fin(humidity_min)) => t.Status[i] = "NeedsWater"
                 /\ Gt(v, Fin(humidity_max)) => t.Status[i] = "Check"
                 /\ Between(humidity_min, v, humidity_max) => t.Status[i] = "Good"

\* A value other than NaN.
IsFinite(v) == v[1]

Required == {"sc", "sh", "st", "n", "p", "k", "ph"}

\* Row i of the file lacks a required field or holds a non-finite value.
Invalid(i) ==
    \/ ~(Required \subseteq csv.columns)
    \/ \E c \in Required \cap csv.columns : ~IsFinite(csv.rows[i][c])

\* C8: a reading with a missing required field or a non-finite value gets no
\* label, and no card or table is rendered from it.
C8_InvalidRejected ==
    \A i \in 1..Len(df) :
        Invalid(i) =>
            /\ df[i].crop_health \notin Labels
            /\ (i \in MatchingIndexes => page.health = None /\ page.soil = None)

ChecksPassExceptHigh(r) ==
    /\ Between(ph_min, r.ph, ph_max)
    /\ Between(temperature_min, r.temperature, temperature_max)
    /\ Between(humidity_min, r.humidity, humidity_max)
    /\ ~Lt(r.n, Fin(n_min)) /\ ~Lt(r.p, Fin(p_min)) /\ ~Lt(r.k, Fin(k_min))

\* C9: outside Dormancy, a nutrient above its maximum with every label check
\* passing leaves the label Healthy while its soil row is Check; a nutrient
\* below its minimum with ph in range gives Needs Attention.
C9_HighSideNoEscalation ==
    (page.health # None /\ page.soil # None /\ FirstMatch.stage # "Dormancy") =>
        LET r == FirstMatch
            t == page.soil[1]
            label == page.health[1].crop_health
        IN  /\ ChecksPassExceptHigh(r) =>
                /\ Gt(r.n, Fin(n_max)) =>
                      label = "Healthy" /\ t.Status[RowOf(t, "n")] = "Check"
                /\ Gt(r.p, Fin(p_max)) =>
                      label = "Healthy" /\ t.Status[RowOf(t, "p")] = "Check"
                /\ Gt(r.k, Fin(k_max)) =>
                      label = "Healthy" /\ t.Status[RowOf(t, "k")] = "Check"
            /\ (Between(ph_min, r.ph, ph_max) /\
                (Lt(r.n, Fin(n_min)) \/ Lt(r.p, Fin(p_min)) \/ Lt(r.k, Fin(k_min)))) =>
                  label = "Needs Attention"

\* Nitrogen above its maximum on a page that shows Healthy.
C9_Witness ==
    /\ page.health # None /\ page.soil # None
    /\ FirstMatch.stage # "Dormancy"
    /\ Gt(FirstMatch.n, Fin(n_max))
    /\ page.health[1].crop_health = "Healthy"
    /\ page.soil[1].Status[1] = "Check"

\* C10: with no row at the selected date and hour the run shows the warning
\* and none of the health card, story card, alerts, soil table, predictions
\* (no predict call) and chart; with a row there is no warning, and the health
\* card, the story card and the soil table all come from the first such row.
C10_MissingRow ==
    IF ~Displayed
    THEN /\ page.warning
         /\ page.health = None /\ page.story = None /\ page.alerts = None
         /\ page.soil = None /\ page.predictions = None /\ page.chart = None
    ELSE /\ ~page.warning
         /\ page.health # None
         /\ page.health[1].crop_health = FirstMatch.crop_health
         /\ page.story # None
         /\ (page.story[1] = "thriving in optimal conditions")
               <=> (FirstMatch.crop_health = "Healthy")
         /\ (page.story[1] = "under stress")
               <=> (FirstMatch.crop_health = "Needs Attention")
         /\ (page.story[1] = "facing critical conditions")
               <=> (FirstMatch.crop_health = "At Risk")
         /\ page.soil # None
         /\ \A i \in 1..Len(page.soil[1].Parameter) :
               page.soil[1].CurrentValue[i] = FirstMatch[page.soil[1].Parameter[i]]

\* The operator has moved to an hour for which a two-row file has no row.
C10_Witness ==
    /\ ~Displayed
    /\ Len(df) = 2
    /\ time_slider # DefaultHour
    /\ page.warning /\ page.health = None

====
